---------------------------- MODULE Spec2Model ----------------------------
(***************************************************************************)
(* word_power: the interactive exercise-entry tool.                        *)
(*                                                                         *)
(* The model follows one process from main() through Exercise::read()      *)
(* (src/src/entry.rs) to the load/append/save of execute_data()            *)
(* (src/src/main.rs).  Every prompt() call of the source is one step; the  *)
(* reply to the prompt is the step's input.  data.json is modelled by its  *)
(* text, as the sequence of JSON tokens serde_json writes and reads.       *)
(***************************************************************************)
EXTENDS Integers, Sequences, FiniteSets, TLC

(***************************************************************************)
(* Bounds of the model.                                                    *)
(***************************************************************************)
\* largest reply to "How many questions?"
MaxN == 2
\* largest reply to "How many options?"
MaxM == 2
\* largest number of non-SaveAndQuit selections in one run
MaxInst == 2
\* largest number of prompts shown in one run
MaxPrompts == 9
\* largest number of instances in a collection data.json starts with, and the
\* size of the stored collection from which the tool is not run again
MaxStored == 2

\* the strings a user types at a Text prompt
Texts == {"p", "q"}

(***************************************************************************)
(* JSON text.  A token is a pair <<kind, text>>: punctuation, a string     *)
(* literal or one of the literals true / false.  White space carries no    *)
(* information and is not represented.                                     *)
(***************************************************************************)
LB == <<"p", "[">>
RB == <<"p", "]">>
LBR == <<"p", "{">>
RBR == <<"p", "}">>
COMMA == <<"p", ",">>
COLON == <<"p", ":">>
Str(s) == <<"s", s>>
Lit(b) == <<"l", IF b THEN "true" ELSE "false">>

RECURSIVE Join(_)
\* the items of an array or object, separated by commas
Join(parts) ==
  IF parts = <<>> THEN <<>>
  ELSE IF Len(parts) = 1 THEN parts[1]
  ELSE parts[1] \o <<COMMA>> \o Join(Tail(parts))

SerSeq(parts) == <<LB>> \o Join(parts) \o <<RB>>
SerMap(parts) == <<LBR>> \o Join(parts) \o <<RBR>>
SerField(key, val) == <<Str(key), COLON>> \o val
SerStrings(ss) == SerSeq([i \in 1..Len(ss) |-> <<Str(ss[i])>>])

\* the variant names of enum Exercise, in declaration order
Variants ==
  <<"Matching", "YesNo", "Recall", "Mcq", "RecognizeRoot",
    "FillInTheBlank", "SameOrOpposite">>
VariantSet == {Variants[i] : i \in 1..Len(Variants)}

\* derive(Serialize) of the entry structs: the fields in declaration order
SerEntry(type, e) ==
  CASE type = "Matching" ->
         SerMap(<<SerField("question", <<Str(e.question)>>),
                  SerField("answer", <<Str(e.answer)>>)>>)
    [] type = "YesNo" ->
         SerMap(<<SerField("question", <<Str(e.question)>>),
                  SerField("answer", <<Lit(e.answer)>>)>>)
    [] type = "Recall" ->
         SerMap(<<SerField("question", <<Str(e.question)>>),
                  SerField("answer", <<Str(e.answer)>>)>>)
    [] type = "Mcq" ->
         SerMap(<<SerField("question", <<Str(e.question)>>),
                  SerField("answer", <<Str(e.answer)>>),
                  SerField("options", SerStrings(e.options))>>)
    [] type = "RecognizeRoot" ->
         SerMap(<<SerField("question", <<Str(e.question)>>),
                  SerField("answer", <<Str(e.answer)>>),
                  SerField("example", <<Str(e.example)>>)>>)
    [] type = "FillInTheBlank" ->
         SerMap(<<SerField("question", <<Str(e.question)>>),
                  SerField("answer", <<Str(e.answer)>>),
                  SerField("blank", <<Str(e.blank)>>)>>)
    [] type = "SameOrOpposite" ->
         SerMap(<<SerField("first_word", <<Str(e.first_word)>>),
                  SerField("second_word", <<Str(e.second_word)>>),
                  SerField("answer", <<Lit(e.answer)>>)>>)

\* serde(tag = "type", content = "data"): {"type": <variant>, "data": [...]}
SerExercise(x) ==
  SerMap(<<SerField("type", <<Str(x.type)>>),
           SerField("data",
                    SerSeq([i \in 1..Len(x.data) |-> SerEntry(x.type, x.data[i])]))>>)

\* serde_json::to_string_pretty(&all_exercises)
to_string_pretty(all) == SerSeq([i \in 1..Len(all) |-> SerExercise(all[i])])

(***************************************************************************)
(* Reading JSON text: first the syntax (a value tree), then the typed      *)
(* collection the derived Deserialize impls build from it.                 *)
(***************************************************************************)
Fail == [ok |-> FALSE]
Got(val, next) == [ok |-> TRUE, v |-> val, nx |-> next]
StrV(s) == [k |-> "str", v |-> s]
BoolV(s) == [k |-> "bool", v |-> s]
ArrV(items) == [k |-> "arr", v |-> items]
ObjV(members) == [k |-> "obj", v |-> members]

RECURSIVE ParseValue(_, _)
RECURSIVE ParseElems(_, _, _)
RECURSIVE ParseMembers(_, _, _)

\* one JSON value starting at token i
ParseValue(t, i) ==
  IF i > Len(t) THEN Fail
  ELSE IF t[i][1] = "s" THEN Got(StrV(t[i][2]), i + 1)
  ELSE IF t[i][1] = "l" THEN Got(BoolV(t[i][2]), i + 1)
  ELSE IF t[i] = LB THEN
    IF i + 1 <= Len(t) /\ t[i + 1] = RB THEN Got(ArrV(<<>>), i + 2)
    ELSE ParseElems(t, i + 1, <<>>)
  ELSE IF t[i] = LBR THEN
    IF i + 1 <= Len(t) /\ t[i + 1] = RBR THEN Got(ObjV(<<>>), i + 2)
    ELSE ParseMembers(t, i + 1, <<>>)
  ELSE Fail

\* the elements of a non-empty array, up to and including its "]"
ParseElems(t, i, acc) ==
  LET r == ParseValue(t, i) IN
  IF ~r.ok THEN Fail
  ELSE IF r.nx > Len(t) THEN Fail
  ELSE IF t[r.nx] = COMMA THEN ParseElems(t, r.nx + 1, Append(acc, r.v))
  ELSE IF t[r.nx] = RB THEN Got(ArrV(Append(acc, r.v)), r.nx + 1)
  ELSE Fail

\* the members of a non-empty object, up to and including its "}"
ParseMembers(t, i, acc) ==
  IF i + 1 > Len(t) THEN Fail
  ELSE IF t[i][1] # "s" \/ t[i + 1] # COLON THEN Fail
  ELSE
    LET r == ParseValue(t, i + 2) IN
    IF ~r.ok THEN Fail
    ELSE IF r.nx > Len(t) THEN Fail
    ELSE IF t[r.nx] = COMMA
      THEN ParseMembers(t, r.nx + 1, Append(acc, <<t[i][2], r.v>>))
    ELSE IF t[r.nx] = RBR
      THEN Got(ObjV(Append(acc, <<t[i][2], r.v>>)), r.nx + 1)
    ELSE Fail

\* the positions of key in an object
Keys(o, key) == {j \in 1..Len(o.v) : o.v[j][1] = key}
\* a field is usable when it occurs exactly once (missing and duplicate
\* fields are errors) and its value has the wanted kind
HasField(o, key, kind) ==
  /\ Cardinality(Keys(o, key)) = 1
  /\ \A j \in Keys(o, key) : o.v[j][2].k = kind
FieldOf(o, key) == o.v[CHOOSE j \in Keys(o, key) : TRUE][2]

IsStrings(a) == a.k = "arr" /\ \A j \in 1..Len(a.v) : a.v[j].k = "str"
ToBool(b) == b.v = "true"

\* the fields of each entry struct and the JSON kind each must have
EntryFields(type) ==
  CASE type = "Matching" -> <<<<"question", "str">>, <<"answer", "str">>>>
    [] type = "YesNo" -> <<<<"question", "str">>, <<"answer", "bool">>>>
    [] type = "Recall" -> <<<<"question", "str">>, <<"answer", "str">>>>
    [] type = "Mcq" ->
         <<<<"question", "str">>, <<"answer", "str">>, <<"options", "arr">>>>
    [] type = "RecognizeRoot" ->
         <<<<"question", "str">>, <<"answer", "str">>, <<"example", "str">>>>
    [] type = "FillInTheBlank" ->
         <<<<"question", "str">>, <<"answer", "str">>, <<"blank", "str">>>>
    [] type = "SameOrOpposite" ->
         <<<<"first_word", "str">>, <<"second_word", "str">>, <<"answer", "bool">>>>

\* derive(Deserialize) accepts a value as an entry of the variant
EntryOk(type, o) ==
  /\ o.k = "obj"
  /\ \A f \in 1..Len(EntryFields(type)) :
       HasField(o, EntryFields(type)[f][1], EntryFields(type)[f][2])
  /\ type = "Mcq" => IsStrings(FieldOf(o, "options"))

\* the entry a value deserializes to
DeEntry(type, o) ==
  CASE type = "Matching" ->
         [question |-> FieldOf(o, "question").v, answer |-> FieldOf(o, "answer").v]
    [] type = "YesNo" ->
         [question |-> FieldOf(o, "question").v,
          answer |-> ToBool(FieldOf(o, "answer"))]
    [] type = "Recall" ->
         [question |-> FieldOf(o, "question").v, answer |-> FieldOf(o, "answer").v]
    [] type = "Mcq" ->
         [question |-> FieldOf(o, "question").v,
          answer |-> FieldOf(o, "answer").v,
          options |-> [j \in 1..Len(FieldOf(o, "options").v) |->
                         FieldOf(o, "options").v[j].v]]
    [] type = "RecognizeRoot" ->
         [question |-> FieldOf(o, "question").v,
          answer |-> FieldOf(o, "answer").v,
          example |-> FieldOf(o, "example").v]
    [] type = "FillInTheBlank" ->
         [question |-> FieldOf(o, "question").v,
          answer |-> FieldOf(o, "answer").v,
          blank |-> FieldOf(o, "blank").v]
    [] type = "SameOrOpposite" ->
         [first_word |-> FieldOf(o, "first_word").v,
          second_word |-> FieldOf(o, "second_word").v,
          answer |-> ToBool(FieldOf(o, "answer"))]

\* a value is an Exercise: an object with a known "type" and a "data" array
\* of entries of that variant
ExerciseOk(o) ==
  /\ o.k = "obj"
  /\ HasField(o, "type", "str")
  /\ FieldOf(o, "type").v \in VariantSet
  /\ HasField(o, "data", "arr")
  /\ \A j \in 1..Len(FieldOf(o, "data").v) :
       EntryOk(FieldOf(o, "type").v, FieldOf(o, "data").v[j])

DeExercise(o) ==
  [type |-> FieldOf(o, "type").v,
   data |-> [j \in 1..Len(FieldOf(o, "data").v) |->
               DeEntry(FieldOf(o, "type").v, FieldOf(o, "data").v[j])]]

\* serde_json::from_str::<Vec<Exercise>>(&file_content): the whole text is
\* one JSON array whose elements are Exercises; anything else is an error
from_str(t) ==
  LET r == ParseValue(t, 1) IN
  IF ~r.ok THEN [ok |-> FALSE]
  ELSE IF r.nx # Len(t) + 1 THEN [ok |-> FALSE]
  ELSE IF r.v.k # "arr" THEN [ok |-> FALSE]
  ELSE IF \E j \in 1..Len(r.v.v) : ~ExerciseOk(r.v.v[j]) THEN [ok |-> FALSE]
  ELSE [ok |-> TRUE, val |-> [j \in 1..Len(r.v.v) |-> DeExercise(r.v.v[j])]]

(***************************************************************************)
(* The program state.                                                      *)
(***************************************************************************)
VARIABLES
  args,       \* env::args(): the program name and its arguments
  file,       \* data.json: whether it exists, and its text
  old,        \* data.json as it was when the process started
  pc,         \* the statement the process is at
  tp,         \* the EntryOptions variant being read ("" at the type menu)
  n,          \* let n: the reply to "How many questions?"
  m,          \* let m: the reply to "How many options?"
  q,          \* the question text of the entry being read (Mcq, RecognizeRoot)
  ex,         \* the example of the entry being read (RecognizeRoot)
  questions,  \* read_questions(): the questions read so far
  options,    \* read_options(): the options read so far
  entries,    \* the entries the batch has collected so far
  out,        \* Exercise::read(): the exercises collected so far
  prompts,    \* every prompt shown to the user and its reply, in order
  io,         \* the operations made on data.json, in order
  res,        \* how execute_data() ended ("" while it has not)
  stdout,     \* the lines printed to standard output
  stderr,     \* the lines printed to standard error
  code        \* the exit status, once pc = "exit"

batch == <<tp, n, m, q, ex, questions, options, entries>>
engine == <<batch, out, prompts>>
store == <<file, io, res>>
shell == <<stdout, stderr, code>>
vars == <<args, old, pc, engine, store, shell>>

(***************************************************************************)
(* Prompts.  A message is kept as its format string and its arguments.     *)
(***************************************************************************)
Alphabet ==
  <<"a", "b", "c", "d", "e", "f", "g", "h", "i", "j", "k", "l", "m",
    "n", "o", "p", "q", "r", "s", "t", "u", "v", "w", "x", "y", "z">>
\* ('a'..).nth(j)
Letter(j) == Alphabet[j + 1]

Msg(fmt, num, c, text, example) ==
  [fmt |-> fmt, num |-> num, c |-> c, text |-> text, ex |-> example]
\* a literal message
Plain(s) == Msg(s, 0, "", "", "")
\* a variant of Numbered that goes on counting over the session
NumberedOverSession(i) == Msg("{}. ", i + 1 + Len(out), "", "", "")
\* format!("{}. ", i + 1)
Numbered(i) == Msg("{}. ", i + 1, "", "", "")
\* format!("({})", c)
Lettered(j) == Msg("({})", 0, Letter(j), "", "")
\* format!("{}. {}", i + 1, question)
NumberedText(i, question) == Msg("{}. {}", i + 1, "", question, "")
\* format!("{}. {}, Example: {}", i + 1, q, ex)
NumberedExample(i, question, example) ==
  Msg("{}. {}, Example: {}", i + 1, "", question, example)

\* a prompt: its kind, its message, the options it offers (Select), and
\* whether OPTION_FORMATTER is attached to render the chosen option
Prompt(kind, msg, opts, formatter) ==
  [kind |-> kind, msg |-> msg, opts |-> opts, formatter |-> formatter]

\* what prompt() returns: Ok(text), Ok(number), Ok(bool), Ok(the option
\* chosen), or an Err when the user cancels or interrupts
Reply(ok, s, k, b) == [ok |-> ok, s |-> s, k |-> k, b |-> b]
Typed(s) == Reply(TRUE, s, 0, FALSE)
Counted(k) == Reply(TRUE, "", k, FALSE)
Confirmed(b) == Reply(TRUE, "", 0, b)
Chosen(opts, j) == Reply(TRUE, opts[j], j, FALSE)
Cancelled == Reply(FALSE, "", 0, FALSE)

\* EntryOptions::all()
EntryOptions ==
  <<"Matching", "YesNo", "Recall", "Mcq", "RecognizeRoot", "SaveAndQuit">>

\* the prompt() call the process is blocked in
Pending ==
  CASE pc = "SelectType" ->
         Prompt("Select", Plain("Exercise type"), EntryOptions, FALSE)
    [] pc \in {"rq_n", "mcq_n", "rr_n"} ->
         Prompt("CustomType", Plain("How many questions?"), <<>>, FALSE)
    [] pc = "mcq_m" ->
         Prompt("CustomType", Plain("How many options?"), <<>>, FALSE)
    [] pc = "rq_text" -> Prompt("Text", Numbered(Len(questions)), <<>>, FALSE)
    [] pc \in {"mcq_q", "rr_q"} ->
         Prompt("Text", Numbered(Len(entries)), <<>>, FALSE)
    [] pc = "ro_text" -> Prompt("Text", Lettered(Len(options)), <<>>, FALSE)
    [] pc = "m_select" ->
         Prompt("Select",
                NumberedText(Len(entries), questions[Len(entries) + 1]),
                options, TRUE)
    [] pc = "yn_confirm" ->
         Prompt("Confirm",
                NumberedText(Len(entries), questions[Len(entries) + 1]),
                <<>>, FALSE)
    [] pc = "rc_answer" ->
         Prompt("Text",
                NumberedText(Len(entries), questions[Len(entries) + 1]),
                <<>>, FALSE)
    [] pc = "mcq_select" ->
         Prompt("Select", NumberedText(Len(entries), q), options, FALSE)
    [] pc = "rr_ex" -> Prompt("Text", Plain("Example"), <<>>, FALSE)
    [] pc = "rr_answer" ->
         Prompt("Text", NumberedExample(Len(entries), q, ex), <<>>, FALSE)

PromptPcs ==
  {"SelectType", "rq_n", "rq_text", "ro_text", "m_select", "yn_confirm",
   "rc_answer", "mcq_n", "mcq_m", "mcq_q", "mcq_select", "rr_n", "rr_q",
   "rr_ex", "rr_answer"}

\* prompt() shows the pending prompt and returns reply
Ask(reply) ==
  /\ Len(prompts) < MaxPrompts
  /\ prompts' = Append(prompts, [prompt |-> Pending, reply |-> reply])

(***************************************************************************)
(* The data model (src/src/exercise.rs).                                   *)
(***************************************************************************)
MatchingNew(question, answer) == [question |-> question, answer |-> answer]
YesNoNew(question, answer) == [question |-> question, answer |-> answer]
RecallNew(question, answer) == [question |-> question, answer |-> answer]
McqNew(question, answer, opts) ==
  [question |-> question, answer |-> answer, options |-> opts]
RecognizeRootNew(question, answer, example) ==
  [question |-> question, answer |-> answer, example |-> example]
FillInTheBlankNew(question, answer, blank) ==
  [question |-> question, answer |-> answer, blank |-> blank]
SameOrOppositeNew(first_word, second_word, answer) ==
  [first_word |-> first_word, second_word |-> second_word, answer |-> answer]
\* Exercise::<Variant>(Vec<..>)
Exercise(type, data) == [type |-> type, data |-> data]

(***************************************************************************)
(* The initial state: the command line and what data.json holds.           *)
(***************************************************************************)
\* no flag, the flag among others, near misses of the flag, and no argv[0]
ArgLists ==
  {<<"word_power">>, <<"word_power", "-v", "--input">>,
   <<"word_power", "--inputs", "input">>, <<>>}

NoFile == [exists |-> FALSE, text |-> <<>>]
FileOf(text) == [exists |-> TRUE, text |-> text]

StoredCollection ==
  <<Exercise("Mcq", <<McqNew("q", "p", <<"p", "q">>)>>),
    Exercise("FillInTheBlank", <<FillInTheBlankNew("p", "q", "p")>>),
    Exercise("SameOrOpposite", <<SameOrOppositeNew("p", "q", TRUE)>>)>>
\* a hand-edited file: "data" before "type"
TextReordered ==
  <<LB, LBR, Str("data"), COLON, LB, RB, COMMA,
    Str("type"), COLON, Str("Recall"), RBR, RB>>
\* texts that are no serialized collection
TextTruncated ==
  SubSeq(to_string_pretty(StoredCollection), 1, Len(to_string_pretty(StoredCollection)) - 2)
TextUnknownVariant ==
  <<LB, LBR, Str("type"), COLON, Str("Cloze"), COMMA,
    Str("data"), COLON, LB, RB, RBR, RB>>

ValidTexts == {to_string_pretty(StoredCollection), TextReordered}
CorruptTexts == {TextTruncated, TextUnknownVariant}

InitFiles == {NoFile} \cup {FileOf(t) : t \in ValidTexts \cup CorruptTexts}

Init ==
  /\ args \in ArgLists
  /\ file \in InitFiles
  /\ old = file
  /\ pc = "main"
  /\ tp = ""
  /\ n = 0
  /\ m = 0
  /\ q = ""
  /\ ex = ""
  /\ questions = <<>>
  /\ options = <<>>
  /\ entries = <<>>
  /\ out = <<>>
  /\ prompts = <<>>
  /\ io = <<>>
  /\ res = ""
  /\ stdout = <<>>
  /\ stderr = <<>>
  /\ code = 0

(***************************************************************************)
(* main (src/src/main.rs).                                                 *)
(***************************************************************************)
\* a variant of Contains that looks at the first argument only
ContainsAsFirstArgument(s, x) == Len(s) >= 2 /\ s[2] = x
\* Vec::contains
Contains(s, x) == \E i \in 1..Len(s) : s[i] = x

\* args.contains("--input"): execute_data() starts with Exercise::read()
MainInput ==
  /\ pc = "main"
  /\ Contains(args, "--input")
  /\ pc' = "SelectType"
  /\ UNCHANGED <<args, old, engine, store, shell>>

\* otherwise: the usage line, and main returns
MainUsage ==
  /\ pc = "main"
  /\ ~Contains(args, "--input")
  /\ stdout' = Append(stdout,
                      <<"Usage: {} --input",
                        IF args = <<>> THEN "program" ELSE args[1]>>)
  /\ pc' = "exit"
  /\ code' = 0
  /\ UNCHANGED <<args, old, engine, store, stderr>>

(***************************************************************************)
(* The entry engine (src/src/entry.rs).                                    *)
(***************************************************************************)
\* the locals of a batch, dropped when the batch returns
DropBatch ==
  /\ tp' = ""
  /\ n' = 0
  /\ m' = 0
  /\ q' = ""
  /\ ex' = ""
  /\ questions' = <<>>
  /\ options' = <<>>
  /\ entries' = <<>>

\* a variant of Return that merges a batch into the previous instance when
\* that has the same type
ReturnMerged(type, data) ==
  /\ out' = IF out # <<>> /\ out[Len(out)].type = type
              THEN [out EXCEPT ![Len(out)].data = @ \o data]
              ELSE Append(out, Exercise(type, data))
  /\ pc' = "SelectType"
  /\ DropBatch

\* <Type>::read() returns data: map_while yields Some(Exercise::<Type>(data)),
\* collect() pushes it, and the closure runs again
Return(type, data) ==
  /\ out' = Append(out, Exercise(type, data))
  /\ pc' = "SelectType"
  /\ DropBatch

\* Select::new("Exercise type", EntryOptions::all()).prompt()
SelectType(j) ==
  /\ pc = "SelectType"
  /\ EntryOptions[j] # "SaveAndQuit" => Len(out) < MaxInst
  /\ Ask(Chosen(EntryOptions, j))
  /\ CASE EntryOptions[j] \in {"Matching", "YesNo", "Recall"} ->
            /\ pc' = "rq_n"
            /\ tp' = EntryOptions[j]
       [] EntryOptions[j] = "Mcq" ->
            /\ pc' = "mcq_n"
            /\ tp' = EntryOptions[j]
       [] EntryOptions[j] = "RecognizeRoot" ->
            /\ pc' = "rr_n"
            /\ tp' = EntryOptions[j]
       [] EntryOptions[j] = "SaveAndQuit" ->
            /\ pc' = "store"
            /\ tp' = ""
  /\ UNCHANGED <<args, old, n, m, q, ex, questions, options, entries, out, store, shell>>

\* a variant of ReadQuestionsCount that leaves an empty batch out
ReadQuestionsCountSkipsEmpty(k) ==
  /\ pc = "rq_n"
  /\ Ask(Counted(k))
  /\ IF k = 0
       THEN /\ pc' = "SelectType"
            /\ DropBatch
            /\ UNCHANGED out
       ELSE /\ n' = k
            /\ pc' = "rq_text"
            /\ UNCHANGED <<tp, m, q, ex, questions, options, entries, out>>
  /\ UNCHANGED <<args, old, store, shell>>

\* read_questions: the count
ReadQuestionsCount(k) ==
  /\ pc = "rq_n"
  /\ Ask(Counted(k))
  /\ IF k = 0
       THEN Return(tp, <<>>)
       ELSE /\ n' = k
            /\ pc' = "rq_text"
            /\ UNCHANGED <<tp, m, q, ex, questions, options, entries, out>>
  /\ UNCHANGED <<args, old, store, shell>>

\* read_questions: question i + 1; after the last one Matching goes on to
\* read_options(questions.len()), YesNo and Recall to their answers
ReadQuestionsText(s) ==
  /\ pc = "rq_text"
  /\ Ask(Typed(s))
  /\ questions' = Append(questions, s)
  /\ pc' = IF Len(questions) + 1 < n THEN "rq_text"
           ELSE IF tp = "Matching" THEN "ro_text"
           ELSE IF tp = "YesNo" THEN "yn_confirm"
           ELSE "rc_answer"
  /\ UNCHANGED <<args, old, tp, n, m, q, ex, options, entries, out, store, shell>>

\* a variant of OptionCount that takes the question count for Mcq too
OptionCountOfQuestions == IF tp = "Matching" THEN Len(questions) ELSE n
\* the number of options read_options was called with
OptionCount == IF tp = "Matching" THEN Len(questions) ELSE m

\* read_options: the option labelled with the next letter
ReadOptionsText(s) ==
  /\ pc = "ro_text"
  /\ Ask(Typed(s))
  /\ options' = Append(options, s)
  /\ pc' = IF Len(options) + 1 < OptionCount THEN "ro_text"
           ELSE IF tp = "Matching" THEN "m_select"
           ELSE "mcq_select"
  /\ UNCHANGED <<args, old, tp, n, m, q, ex, questions, entries, out, store, shell>>

\* a variant of Collected that puts the newest entry first
CollectedNewestFirst(entry, next, pool) ==
  IF Len(entries) + 1 = n
    THEN Return(tp, <<entry>> \o entries)
    ELSE /\ entries' = <<entry>> \o entries
         /\ pc' = next
         /\ q' = ""
         /\ ex' = ""
         /\ options' = pool
         /\ UNCHANGED <<tp, n, m, questions, out>>

\* collect(): the batch has its last entry and returns, or goes on with the
\* next one at pc next; the locals of the closure call (q, opts, ex) are
\* dropped, and pool is what stays in options
Collected(entry, next, pool) ==
  IF Len(entries) + 1 = n
    THEN Return(tp, Append(entries, entry))
    ELSE /\ entries' = Append(entries, entry)
         /\ pc' = next
         /\ q' = ""
         /\ ex' = ""
         /\ options' = pool
         /\ UNCHANGED <<tp, n, m, questions, out>>

\* a variant of MatchingSelect that takes the chosen option out of the pool
MatchingSelectConsumesOption(j) ==
  /\ pc = "m_select"
  /\ Ask(Chosen(options, j))
  /\ Collected(MatchingNew(questions[Len(entries) + 1], options[j]),
               "m_select",
               SubSeq(options, 1, j - 1) \o SubSeq(options, j + 1, Len(options)))
  /\ UNCHANGED <<args, old, store, shell>>

\* a variant of MatchingSelect that records the letter shown for the option
MatchingSelectRecordsLetter(j) ==
  /\ pc = "m_select"
  /\ Ask(Chosen(options, j))
  /\ Collected(MatchingNew(questions[Len(entries) + 1], Letter(j - 1)),
               "m_select", options)
  /\ UNCHANGED <<args, old, store, shell>>

\* Matching::read: the answer of question i + 1, chosen from the shared pool
MatchingSelect(j) ==
  /\ pc = "m_select"
  /\ Ask(Chosen(options, j))
  /\ Collected(MatchingNew(questions[Len(entries) + 1], options[j]),
               "m_select", options)
  /\ UNCHANGED <<args, old, store, shell>>

\* YesNo::read: the answer of question i + 1
YesNoConfirm(b) ==
  /\ pc = "yn_confirm"
  /\ Ask(Confirmed(b))
  /\ Collected(YesNoNew(questions[Len(entries) + 1], b), "yn_confirm", <<>>)
  /\ UNCHANGED <<args, old, store, shell>>

\* Recall::read: the answer of question i + 1
RecallAnswer(s) ==
  /\ pc = "rc_answer"
  /\ Ask(Typed(s))
  /\ Collected(RecallNew(questions[Len(entries) + 1], s), "rc_answer", <<>>)
  /\ UNCHANGED <<args, old, store, shell>>

\* a variant of McqCountN that goes on to the questions at once
McqCountNSkipsOptionCount(k) ==
  /\ pc = "mcq_n"
  /\ Ask(Counted(k))
  /\ n' = k
  /\ pc' = "mcq_q"
  /\ UNCHANGED <<args, old, tp, m, q, ex, questions, options, entries, out, store, shell>>

\* Mcq::read: "How many questions?"
McqCountN(k) ==
  /\ pc = "mcq_n"
  /\ Ask(Counted(k))
  /\ n' = k
  /\ pc' = "mcq_m"
  /\ UNCHANGED <<args, old, tp, m, q, ex, questions, options, entries, out, store, shell>>

\* Mcq::read: "How many options?"; (0..n) is empty when n = 0
McqCountM(k) ==
  /\ pc = "mcq_m"
  /\ Ask(Counted(k))
  /\ IF n = 0
       THEN Return(tp, <<>>)
       ELSE /\ m' = k
            /\ pc' = "mcq_q"
            /\ UNCHANGED <<tp, n, q, ex, questions, options, entries, out>>
  /\ UNCHANGED <<args, old, store, shell>>

\* Mcq::read: the text of question i + 1, then read_options(m)
McqQuestion(s) ==
  /\ pc = "mcq_q"
  /\ Ask(Typed(s))
  /\ q' = s
  /\ pc' = IF m = 0 THEN "mcq_select" ELSE "ro_text"
  /\ UNCHANGED <<args, old, tp, n, m, ex, questions, options, entries, out, store, shell>>

\* a variant of McqSelect that keeps one option pool for the whole batch
McqSelectKeepsOptions(j) ==
  /\ pc = "mcq_select"
  /\ Ask(Chosen(options, j))
  /\ Collected(McqNew(q, options[j], options), "mcq_q", options)
  /\ UNCHANGED <<args, old, store, shell>>

\* Mcq::read: the answer of question i + 1, chosen from its own options
McqSelect(j) ==
  /\ pc = "mcq_select"
  /\ Ask(Chosen(options, j))
  /\ Collected(McqNew(q, options[j], options), "mcq_q", <<>>)
  /\ UNCHANGED <<args, old, store, shell>>

\* RecognizeRoot::read: "How many questions?"
RecognizeRootCount(k) ==
  /\ pc = "rr_n"
  /\ Ask(Counted(k))
  /\ IF k = 0
       THEN Return(tp, <<>>)
       ELSE /\ n' = k
            /\ pc' = "rr_q"
            /\ UNCHANGED <<tp, m, q, ex, questions, options, entries, out>>
  /\ UNCHANGED <<args, old, store, shell>>

\* RecognizeRoot::read: the text of question i + 1
RecognizeRootQuestion(s) ==
  /\ pc = "rr_q"
  /\ Ask(Typed(s))
  /\ q' = s
  /\ pc' = "rr_ex"
  /\ UNCHANGED <<args, old, tp, n, m, ex, questions, options, entries, out, store, shell>>

\* RecognizeRoot::read: "Example"
RecognizeRootExample(s) ==
  /\ pc = "rr_ex"
  /\ Ask(Typed(s))
  /\ ex' = s
  /\ pc' = "rr_answer"
  /\ UNCHANGED <<args, old, tp, n, m, q, questions, options, entries, out, store, shell>>

\* RecognizeRoot::read: the answer of question i + 1
RecognizeRootAnswer(s) ==
  /\ pc = "rr_answer"
  /\ Ask(Typed(s))
  /\ Collected(RecognizeRootNew(q, s, ex), "rr_q", <<>>)
  /\ UNCHANGED <<args, old, store, shell>>

\* .unwrap() / .expect() on an Err: the thread panics, the stack unwinds and
\* drops every local, and the process ends with the panic exit status
Panic ==
  /\ pc' = "exit"
  /\ code' = 101
  /\ stderr' = Append(stderr, "thread 'main' panicked")
  /\ out' = <<>>
  /\ DropBatch
  /\ UNCHANGED <<args, old, store, stdout>>

\* a variant of PromptAbort that takes a cancelled type menu for SaveAndQuit
PromptAbortSaves ==
  /\ pc \in PromptPcs
  /\ pc \in {"m_select", "mcq_select"} => options # <<>>
  /\ Ask(Cancelled)
  /\ IF pc = "SelectType"
       THEN /\ pc' = "store"
            /\ UNCHANGED <<args, old, batch, out, store, shell>>
       ELSE Panic

\* the user cancels or interrupts the prompt that is showing
PromptAbort ==
  /\ pc \in PromptPcs
  /\ pc \in {"m_select", "mcq_select"} => options # <<>>
  /\ Ask(Cancelled)
  /\ Panic

\* Select::prompt() with no options is an Err before anything is shown
SelectEmpty ==
  /\ pc \in {"m_select", "mcq_select"}
  /\ options = <<>>
  /\ UNCHANGED prompts
  /\ Panic

(***************************************************************************)
(* The store: execute_data() after Exercise::read() has returned.          *)
(***************************************************************************)
\* what fs::write(file_path, json) can leave behind when it fails: the file
\* as it was (it could not be opened), or a created, truncated file holding
\* a proper prefix of json (here its first half)
FailedWrites(json) ==
  {file, FileOf(SubSeq(json, 1, Len(json) \div 2))}

\* a variant of Save that tries a failed write a second time
SaveRetries(all, ops) ==
  \/ /\ file' = FileOf(to_string_pretty(all))
     /\ io' = io \o ops \o <<"write">>
     /\ res' = "Ok"
     /\ UNCHANGED stderr
  \/ /\ file' \in FailedWrites(to_string_pretty(all))
     /\ io' = io \o ops \o <<"write", "write">>
     /\ res' = "Err(write)"
     /\ stderr' = Append(stderr, "Error: {}")

\* serde_json::to_string_pretty(&all_exercises)?; fs::write(file_path, json)?
Save(all, ops) ==
  \/ /\ file' = FileOf(to_string_pretty(all))
     /\ io' = io \o ops \o <<"write">>
     /\ res' = "Ok"
     /\ UNCHANGED stderr
  \/ /\ file' \in FailedWrites(to_string_pretty(all))
     /\ io' = io \o ops \o <<"write">>
     /\ res' = "Err(write)"
     /\ stderr' = Append(stderr, "Error: {}")

\* execute_data returned to main: unwrap_or_else prints an Err, main returns
MainReturns ==
  /\ pc' = "exit"
  /\ code' = 0
  /\ UNCHANGED <<args, old, engine, stdout>>

\* a variant of StoreNew that creates the file with an empty collection
StoreNewEmpty ==
  /\ pc = "store"
  /\ ~file.exists
  /\ Save(<<>>, <<"exists">>)
  /\ MainReturns

\* Path::new(file_path).exists() is false: all_exercises = new_exercises
StoreNew ==
  /\ pc = "store"
  /\ ~file.exists
  /\ Save(out, <<"exists">>)
  /\ MainReturns

\* fs::read_to_string(file_path)? is an Err
StoreReadError ==
  /\ pc = "store"
  /\ file.exists
  /\ io' = io \o <<"exists", "read">>
  /\ res' = "Err(read)"
  /\ stderr' = Append(stderr, "Error: {}")
  /\ UNCHANGED file
  /\ MainReturns

\* a variant of StoreParseError that starts afresh when the file does not
\* parse, and saves the new exercises alone
StoreParseErrorStartsAfresh ==
  /\ pc = "store"
  /\ file.exists
  /\ ~from_str(file.text).ok
  /\ Save(out, <<"exists", "read">>)
  /\ MainReturns

\* serde_json::from_str(&file_content)? is an Err
StoreParseError ==
  /\ pc = "store"
  /\ file.exists
  /\ ~from_str(file.text).ok
  /\ io' = io \o <<"exists", "read">>
  /\ res' = "Err(parse)"
  /\ stderr' = Append(stderr, "Error: {}")
  /\ UNCHANGED file
  /\ MainReturns

\* a variant of Extend that puts the new exercises first
ExtendInFront(existing, new_exercises) == new_exercises \o existing

\* existing.extend(new_exercises); existing
Extend(existing, new_exercises) == existing \o new_exercises

\* a variant of StoreAppend that saves the new exercises alone
StoreAppendReplaces ==
  /\ pc = "store"
  /\ file.exists
  /\ from_str(file.text).ok
  /\ Save(out, <<"exists", "read">>)
  /\ MainReturns

\* a variant of StoreAppend that leaves the stored instances without
\* entries out of what it saves
StoreAppendPrunesEmpty ==
  /\ pc = "store"
  /\ file.exists
  /\ from_str(file.text).ok
  /\ Save(Extend(SelectSeq(from_str(file.text).val, LAMBDA x : Len(x.data) > 0),
                 out),
          <<"exists", "read">>)
  /\ MainReturns

\* the file exists, is read and parses: all_exercises is its collection
\* extended by new_exercises
StoreAppend ==
  /\ pc = "store"
  /\ file.exists
  /\ from_str(file.text).ok
  /\ Save(Extend(from_str(file.text).val, out), <<"exists", "read">>)
  /\ MainReturns

Next ==
  \/ MainInput
  \/ MainUsage
  \/ \E j \in 1..Len(EntryOptions) : SelectType(j)
  \/ \E k \in 0..MaxN : ReadQuestionsCount(k)
  \/ \E s \in Texts : ReadQuestionsText(s)
  \/ \E s \in Texts : ReadOptionsText(s)
  \/ \E j \in 1..Len(options) : MatchingSelect(j)
  \/ \E b \in BOOLEAN : YesNoConfirm(b)
  \/ \E s \in Texts : RecallAnswer(s)
  \/ \E k \in 0..MaxN : McqCountN(k)
  \/ \E k \in 0..MaxM : McqCountM(k)
  \/ \E s \in Texts : McqQuestion(s)
  \/ \E j \in 1..Len(options) : McqSelect(j)
  \/ \E k \in 0..MaxN : RecognizeRootCount(k)
  \/ \E s \in Texts : RecognizeRootQuestion(s)
  \/ \E s \in Texts : RecognizeRootExample(s)
  \/ \E s \in Texts : RecognizeRootAnswer(s)
  \/ PromptAbort
  \/ SelectEmpty
  \/ StoreNew
  \/ StoreReadError
  \/ StoreParseError
  \/ StoreAppend

Spec == Init /\ [][Next]_vars

(***************************************************************************)
(* Sequential runs.  The tool is started again after a run has ended, on   *)
(* whatever that run left in data.json.                                    *)
(***************************************************************************)
\* two entries of each variant; the Mcq ones differ in their option lists
SampleEntries(type) ==
  CASE type = "Matching" -> <<MatchingNew("p", "q"), MatchingNew("q", "q")>>
    [] type = "YesNo" -> <<YesNoNew("p", TRUE), YesNoNew("q", FALSE)>>
    [] type = "Recall" -> <<RecallNew("q", "p"), RecallNew("p", "p")>>
    [] type = "Mcq" ->
         <<McqNew("p", "q", <<"q", "p">>), McqNew("q", "p", <<>>)>>
    [] type = "RecognizeRoot" ->
         <<RecognizeRootNew("p", "q", "q"), RecognizeRootNew("q", "q", "p")>>
    [] type = "FillInTheBlank" ->
         <<FillInTheBlankNew("p", "q", "p"), FillInTheBlankNew("q", "p", "p")>>
    [] type = "SameOrOpposite" ->
         <<SameOrOppositeNew("p", "q", FALSE), SameOrOppositeNew("q", "q", TRUE)>>

\* a collection is drawn by its shape: for each instance, the variant and
\* how many of the variant's sample entries it holds
Shapes ==
  UNION {[1..l -> (1..Len(Variants)) \X (0..2)] : l \in 0..MaxStored}
CollectionOf(shape) ==
  [i \in 1..Len(shape) |->
     Exercise(Variants[shape[i][1]],
              SubSeq(SampleEntries(Variants[shape[i][1]]), 1, shape[i][2]))]
\* a file with every member in the other order: "data" before "type", and
\* the fields of the entry reversed
TextHandEdited ==
  <<LB, LBR, Str("data"), COLON, LB,
    LBR, Str("answer"), COLON, Lit(TRUE), COMMA,
         Str("second_word"), COLON, Str("q"), COMMA,
         Str("first_word"), COLON, Str("p"), RBR,
    RB, COMMA, Str("type"), COLON, Str("SameOrOpposite"), RBR, RB>>
StoredTexts ==
  {to_string_pretty(CollectionOf(c)) : c \in Shapes} \cup {TextHandEdited}

\* the process state at the start of main
Start ==
  /\ pc = "main"
  /\ tp = ""
  /\ n = 0
  /\ m = 0
  /\ q = ""
  /\ ex = ""
  /\ questions = <<>>
  /\ options = <<>>
  /\ entries = <<>>
  /\ out = <<>>
  /\ prompts = <<>>
  /\ io = <<>>
  /\ res = ""
  /\ stdout = <<>>
  /\ stderr = <<>>
  /\ code = 0

\* the process has exited and the tool is started again with arguments a
Rerun(a) ==
  /\ pc = "exit"
  /\ ~(/\ file.exists
       /\ from_str(file.text).ok
       /\ Len(from_str(file.text).val) > MaxStored)
  /\ args' = a
  /\ old' = file
  /\ pc' = "main"
  /\ DropBatch
  /\ out' = <<>>
  /\ prompts' = <<>>
  /\ io' = <<>>
  /\ res' = ""
  /\ stdout' = <<>>
  /\ stderr' = <<>>
  /\ code' = 0
  /\ UNCHANGED file

\* runs in which the user selects SaveAndQuit at the first type menu, on a
\* data.json holding any of the stored collections
NoOpInit ==
  /\ args = <<"word_power", "--input">>
  /\ file \in {FileOf(t) : t \in StoredTexts}
  /\ old = file
  /\ Start

NoOpNext ==
  \/ MainInput
  \/ SelectType(Len(EntryOptions))
  \/ StoreReadError
  \/ StoreParseError
  \/ StoreAppend
  \/ Rerun(args)

SpecNoOp == NoOpInit /\ [][NoOpNext]_vars

\* runs one after the other on the same data.json: each run is the usage
\* run, or authors YesNo batches of at most one entry and saves, or is
\* aborted at a prompt
RunsInit ==
  /\ args \in ArgLists
  /\ file \in {NoFile, FileOf(TextHandEdited), FileOf(TextTruncated)}
  /\ old = file
  /\ Start

RunsNext ==
  \/ MainInput
  \/ MainUsage
  \/ SelectType(2)
  \/ SelectType(Len(EntryOptions))
  \/ \E k \in 0..1 : ReadQuestionsCount(k)
  \/ ReadQuestionsText("p")
  \/ YesNoConfirm(TRUE)
  \/ PromptAbort
  \/ StoreNew
  \/ StoreReadError
  \/ StoreParseError
  \/ StoreAppend
  \/ \E a \in ArgLists : Rerun(a)

SpecRuns == RunsInit /\ [][RunsNext]_vars

(***************************************************************************)
(* Vocabulary of the properties.                                           *)
(***************************************************************************)
\* two exercises are equal: the same variant holding the same entries
SameExercise(a, b) == a.type = b.type /\ a.data = b.data
SameCollection(xs, ys) ==
  /\ Len(xs) = Len(ys)
  /\ \A i \in 1..Len(xs) : SameExercise(xs[i], ys[i])
\* the collection a file holds
Holds(f) == from_str(f.text)
\* the run has ended by main returning after execute_data ran the store
StoreRan == pc = "exit" /\ res # ""
\* the run has ended by a panic
Panicked == pc = "exit" /\ code = 101
\* the positions of the transcript at which the type menu was shown
IsMenu(i) == prompts[i].prompt.msg.fmt = "Exercise type"
Menus == {i \in 1..Len(prompts) : IsMenu(i)}
\* some prompt of the run failed or was cancelled
SomeCancelled == \E i \in 1..Len(prompts) : ~prompts[i].reply.ok
\* the reads and writes of data.json, in order
Touches == SelectSeq(io, LAMBDA op : op \in {"read", "write"})

(***************************************************************************)
(* C1  Append-only.  When the engine has completed with N new instances,   *)
(* data.json existed and parsed to M instances, and the write succeeded,   *)
(* the file parses to exactly M + N instances: the M stored ones,          *)
(* unchanged and in order, followed by the N new ones in authoring order.  *)
(***************************************************************************)
C1_AppendOnly ==
  LET before == Holds(old)
      after == Holds(file)
  IN (StoreRan /\ res = "Ok" /\ old.exists /\ before.ok) =>
       /\ file.exists
       /\ after.ok
       /\ Len(after.val) = Len(before.val) + Len(out)
       /\ \A i \in 1..Len(before.val) :
            SameExercise(after.val[i], before.val[i])
       /\ \A i \in 1..Len(out) :
            SameExercise(after.val[Len(before.val) + i], out[i])

\* two new instances of different variants were appended to three stored ones
C1_Witness ==
  /\ StoreRan
  /\ res = "Ok"
  /\ old = FileOf(to_string_pretty(StoredCollection))
  /\ Len(out) = 2
  /\ out[1].type # out[2].type
  /\ out[1].data # <<>>

(***************************************************************************)
(* C2  Corrupt file.  When data.json exists and its content is no valid    *)
(* serialized collection, the file is never written: it keeps its content  *)
(* in every state of the run; and once the engine has completed and the    *)
(* file has been read, execute_data has failed with the parse error.       *)
(***************************************************************************)
\* the file is as the run found it, and no write was made
Untouched == file = old /\ ~Contains(io, "write")
\* a store that got past the read has ended by the parse error, after the
\* engine had completed
FailedToParse ==
  (StoreRan /\ res # "Err(read)") =>
    /\ res = "Err(parse)"
    /\ Touches = <<"read">>
    /\ Menus # {}
    /\ prompts[Len(prompts)].reply.s = "SaveAndQuit"

\* by contraposition: a data.json that has been changed, or whose store did
\* not fail to parse, held a valid collection when the run started
C2_CorruptFileUntouched ==
  (old.exists /\ ~(Untouched /\ FailedToParse)) => Holds(old).ok

\* a run that authored an instance and then met a corrupt file
C2_Witness ==
  /\ StoreRan
  /\ res = "Err(parse)"
  /\ old \in {FileOf(t) : t \in CorruptTexts}
  /\ Len(out) >= 1
  /\ out[1].data # <<>>

(***************************************************************************)
(* C3  Input abort.  When any prompt of the run has failed or been         *)
(* cancelled, the process has ended by the panic and the store has not run:*)
(* data.json was neither read nor written and keeps its previous content   *)
(* (or stays absent), whatever instances the run had completed before.     *)
(***************************************************************************)
C3_AbortSkipsStore ==
  (SomeCancelled \/ Panicked) =>
    /\ Panicked
    /\ io = <<>>
    /\ res = ""
    /\ file = old
    /\ SomeCancelled => ~prompts[Len(prompts)].reply.ok

\* a prompt inside the second batch is cancelled after a first, non-empty
\* batch had been completed, with a stored file present
C3_Witness ==
  /\ SomeCancelled
  /\ Cardinality(Menus) = 2
  /\ ~IsMenu(Len(prompts))
  /\ prompts[3].prompt.kind = "Text"
  /\ old.exists

(***************************************************************************)
(* C4  Missing file.  When data.json does not exist as the engine          *)
(* completes and the write succeeds, the file is created and parses to     *)
(* exactly the newly authored instances, in authoring order.               *)
(***************************************************************************)
C4_MissingFileCreated ==
  LET after == Holds(file)
  IN (StoreRan /\ res = "Ok" /\ ~old.exists) =>
       /\ file.exists
       /\ after.ok
       /\ SameCollection(after.val, out)

\* the file was missing and the run authored two instances
C4_Witness ==
  /\ StoreRan
  /\ res = "Ok"
  /\ ~old.exists
  /\ Len(out) = 2
  /\ out[2].data # <<>>

(***************************************************************************)
(* Reading the transcript.                                                 *)
(***************************************************************************)
\* the position of the j-th type menu
MenuAt(j) == CHOOSE i \in Menus : Cardinality({k \in Menus : k <= i}) = j
\* the position of the last type menu
LastMenu == CHOOSE i \in Menus : \A k \in Menus : k <= i
\* the number of type menus shown before position i
MenusBefore(i) == Cardinality({k \in Menus : k < i})
\* the process is inside a batch
InBatch == pc \in PromptPcs \ {"SelectType"}
\* the strings of a sequence
Range(ss) == {ss[x] : x \in 1..Len(ss)}
\* the replies typed at positions from + 1 .. from + count
TypedAfter(from, count) == [x \in 1..count |-> prompts[from + x].reply.s]
\* the number of instances data.json held when the run started
Before == IF old.exists /\ Holds(old).ok THEN Len(Holds(old).val) ELSE 0

(***************************************************************************)
(* C5  Top-level loop.  The engine holds one instance per completed        *)
(* non-Stop selection: the i-th instance has the type chosen at the i-th   *)
(* type menu and, when its batch returns, holds exactly the entries that   *)
(* batch collected, appended after the instances already there (never      *)
(* merged into one of them); and SaveAndQuit ends the loop with k          *)
(* instances after k other selections, with no further prompt.             *)
(***************************************************************************)
C5_Selections ==
  ~Panicked =>
    /\ \A j \in 1..Len(out) : out[j].type = prompts[MenuAt(j)].reply.s
    /\ pc = "SelectType" => Cardinality(Menus) = Len(out)
    /\ InBatch =>
         /\ Cardinality(Menus) = Len(out) + 1
         /\ tp = prompts[LastMenu].reply.s
    /\ (pc = "store" \/ StoreRan) =>
         /\ Cardinality(Menus) = Len(out) + 1
         /\ LastMenu = Len(prompts)
         /\ prompts[LastMenu].reply.s = "SaveAndQuit"
         /\ \A j \in 1..Len(out) : out[j].type # "SaveAndQuit"

C5_BatchReturns ==
  (pc' # "exit" /\ out' # out) =>
    /\ Len(out') = Len(out) + 1
    /\ \A j \in 1..Len(out) : SameExercise(out'[j], out[j])
    /\ out'[Len(out')].type = tp
    /\ Len(out'[Len(out')].data) \in {Len(entries), Len(entries) + 1}
    /\ SubSeq(out'[Len(out')].data, 1, Len(entries)) = entries
    /\ pc' = "SelectType"

C5_TopLevelLoop == [](C5_Selections) /\ [][C5_BatchReturns]_vars

\* the same type was selected twice and then Stop: two separate instances
C5_Witness ==
  /\ StoreRan
  /\ Len(out) = 2
  /\ out[1].type = out[2].type
  /\ out[1].data # <<>>
  /\ out[2].data # <<>>

(***************************************************************************)
(* C6  Zero-count.  After the reply 0 to "How many questions?" no prompt   *)
(* for an entry is shown: the next prompt is the type menu again (for Mcq, *)
(* "How many options?" and then the type menu), the batch ends without an  *)
(* error, and the engine holds an instance of the selected type with an    *)
(* empty entry list at the batch's place, which a successful save writes   *)
(* to the file.                                                            *)
(***************************************************************************)
IsCount(i) == prompts[i].prompt.msg.fmt = "How many questions?"
ZeroCounts ==
  {i \in 1..Len(prompts) :
     IsCount(i) /\ prompts[i].reply.ok /\ prompts[i].reply.k = 0}
\* the position after which the batch of the zero count at i has returned
ZeroEnd(i) == IF prompts[i - 1].reply.s = "Mcq" THEN i + 1 ELSE i
EmptyInstanceAt(xs, j, type) ==
  /\ Len(xs) >= j
  /\ xs[j].type = type
  /\ xs[j].data = <<>>

C6_ZeroCount ==
  \A i \in ZeroCounts :
    /\ IsMenu(i - 1)
    /\ prompts[i - 1].reply.s \in
         {"Matching", "YesNo", "Recall", "Mcq", "RecognizeRoot"}
    /\ (prompts[i - 1].reply.s = "Mcq" /\ Len(prompts) = i) =>
         (Panicked \/ pc = "mcq_m")
    /\ (prompts[i - 1].reply.s = "Mcq" /\ Len(prompts) > i) =>
         prompts[i + 1].prompt.msg.fmt = "How many options?"
    /\ Len(prompts) > ZeroEnd(i) => IsMenu(ZeroEnd(i) + 1)
    /\ (Len(prompts) = ZeroEnd(i) /\ prompts[ZeroEnd(i)].reply.ok) =>
         (pc = "SelectType" /\ ~Panicked)
    /\ (Len(prompts) >= ZeroEnd(i) /\ prompts[ZeroEnd(i)].reply.ok /\ ~Panicked) =>
         EmptyInstanceAt(out, MenusBefore(i), prompts[i - 1].reply.s)
    /\ (StoreRan /\ res = "Ok") =>
         EmptyInstanceAt(Holds(file).val, Before + MenusBefore(i),
                         prompts[i - 1].reply.s)

\* a run with an empty Mcq batch and an empty Matching batch, saved after a
\* stored collection
C6_Witness ==
  /\ StoreRan
  /\ res = "Ok"
  /\ old = FileOf(to_string_pretty(StoredCollection))
  /\ Len(out) = 2
  /\ EmptyInstanceAt(out, 1, "Mcq")
  /\ EmptyInstanceAt(out, 2, "Matching")
  /\ Cardinality(ZeroCounts) = 2

(***************************************************************************)
(* C7  Mcq per-question independence.  In every Mcq instance the engine    *)
(* holds, and in the Mcq batch being read, the options of entry i are the  *)
(* M strings typed after the text of question i, and no others, and the    *)
(* answer of entry i is one of them.                                       *)
(***************************************************************************)
\* entry i of the Mcq batch whose type menu was shown at position s
McqEntryOk(e, s, i) ==
  LET M == prompts[s + 2].reply.k
      at == s + 2 + (i - 1) * (M + 2) + 1
  IN /\ prompts[at].prompt.msg = Numbered(i - 1)
     /\ e.question = prompts[at].reply.s
     /\ e.options = TypedAfter(at, M)
     /\ e.answer \in Range(e.options)
     /\ e.answer = prompts[at + M + 1].reply.s

C7_McqOwnOptions ==
  ~Panicked =>
    /\ \A j \in 1..Len(out) :
         out[j].type = "Mcq" =>
           \A i \in 1..Len(out[j].data) : McqEntryOk(out[j].data[i], MenuAt(j), i)
    /\ (InBatch /\ tp = "Mcq") =>
         \A i \in 1..Len(entries) : McqEntryOk(entries[i], LastMenu, i)

\* an Mcq instance whose two entries have disjoint option sets
C7_Witness ==
  /\ Len(out) = 1
  /\ out[1].type = "Mcq"
  /\ Len(out[1].data) = 2
  /\ Range(out[1].data[1].options) \cap Range(out[1].data[2].options) = {}
  /\ out[1].data[1].answer # out[1].data[2].answer

(***************************************************************************)
(* C8  Matching answer domain.  In every Matching instance the engine      *)
(* holds, and in the Matching batch being read, the answer of every entry  *)
(* is one of the K option strings typed for the batch's pool.              *)
(***************************************************************************)
\* the option pool of the Matching batch whose type menu was at position s:
\* the K = N strings typed after the N questions
MatchingPool(s) ==
  Range(TypedAfter(s + 1 + prompts[s + 1].reply.k, prompts[s + 1].reply.k))

C8_MatchingAnswerInPool ==
  ~Panicked =>
    /\ \A j \in 1..Len(out) :
         out[j].type = "Matching" =>
           \A i \in 1..Len(out[j].data) :
             out[j].data[i].answer \in MatchingPool(MenuAt(j))
    /\ (InBatch /\ tp = "Matching") =>
         \A i \in 1..Len(entries) :
           /\ entries[i].answer \in MatchingPool(LastMenu)
           /\ Range(options) = MatchingPool(LastMenu)

\* a Matching instance of two questions answered with different options
C8_Witness ==
  /\ Len(out) = 1
  /\ out[1].type = "Matching"
  /\ Len(out[1].data) = 2
  /\ out[1].data[1].answer # out[1].data[2].answer

(***************************************************************************)
(* C9  Fatal store errors exit non-zero.  When execute_data has failed     *)
(* with a parse error or with a read or write error on data.json, one      *)
(* error line has been printed and the exit status is not zero.            *)
(***************************************************************************)
C9_StoreErrorExitsNonZero ==
  (StoreRan /\ res # "Ok") =>
    /\ Len(stderr) = 1
    /\ code # 0

(***************************************************************************)
(* C10  Storage touched once per run.  As claimed of every run of the      *)
(* authoring flow, stated here for the runs that end with a successful     *)
(* save: the run has made exactly one read of data.json followed by        *)
(* exactly one write, and no write without the preceding read.             *)
(***************************************************************************)
C10_OneReadThenOneWrite ==
  (StoreRan /\ res = "Ok") => Touches = <<"read", "write">>

(***************************************************************************)
(* C10 as amended.  A run makes at most one read and at most one write of  *)
(* data.json, never a second try of either, and a read never after the     *)
(* write.  None before the engine has completed (so none in an aborted     *)
(* run); a single write and no read when the file did not exist; a single  *)
(* read and no write when the read or the parse failed; one read followed  *)
(* by one write otherwise.                                                 *)
(***************************************************************************)
C10_AtMostOneReadOneWrite ==
  /\ Touches \in {<<>>, <<"read">>, <<"write">>, <<"read", "write">>}
  /\ ~StoreRan => Touches = <<>>
  /\ StoreRan =>
       Touches = IF ~old.exists THEN <<"write">>
                 ELSE IF res \in {"Err(read)", "Err(parse)"} THEN <<"read">>
                 ELSE <<"read", "write">>

\* a run that wrote data.json without having read it
C10_Witness ==
  /\ StoreRan
  /\ res = "Ok"
  /\ Touches = <<"write">>
  /\ Len(out) >= 1

(***************************************************************************)
(* C11  No-op round trip.  A run in which SaveAndQuit is selected at once  *)
(* (no new instance), against a data.json that parses to a collection C of *)
(* any of the seven variants, and whose write succeeds, has read the file  *)
(* and rewritten it: the file holds the serialization of C and parses to   *)
(* a collection equal to C; and a run on a file the tool wrote itself      *)
(* leaves the very same text.                                              *)
(***************************************************************************)
C11_NoOpRoundTrip ==
  (StoreRan /\ res = "Ok" /\ out = <<>> /\ old.exists /\ Holds(old).ok) =>
    /\ Touches = <<"read", "write">>
    /\ file = FileOf(to_string_pretty(Holds(old).val))
    /\ Holds(file).ok
    /\ SameCollection(Holds(file).val, Holds(old).val)
    /\ old.text = to_string_pretty(Holds(old).val) => file = old

\* a no-op run rewrote a collection of the two variants that cannot be
\* authored, both with entries
C11_Witness ==
  /\ StoreRan
  /\ res = "Ok"
  /\ out = <<>>
  /\ Len(prompts) = 1
  /\ Holds(old).ok
  /\ Len(Holds(old).val) = 2
  /\ Holds(old).val[1].type = "FillInTheBlank"
  /\ Holds(old).val[2].type = "SameOrOpposite"
  /\ Len(Holds(old).val[1].data) = 2
  /\ Len(Holds(old).val[2].data) = 2


(***************************************************************************)
(* C12  Numbering determinism.  In the batch that follows any type menu,   *)
(* the question prompts carry the numbers 1, 2, ... in the order they are  *)
(* shown, and so do the per-question selection / answer prompts; a batch   *)
(* that has completed after the count N has shown exactly N of each.  The  *)
(* numbers start at 1 in every batch, whatever was authored before it.     *)
(***************************************************************************)
QuestionFmts == {"{}. "}
AnswerFmts == {"{}. {}", "{}. {}, Example: {}"}
\* the last position of the batch whose type menu was shown at position s
BatchEnd(s) ==
  IF \E k \in (s + 1)..Len(prompts) : IsMenu(k)
    THEN (CHOOSE k \in (s + 1)..Len(prompts) :
            IsMenu(k) /\ \A l \in (s + 1)..(k - 1) : ~IsMenu(l)) - 1
    ELSE Len(prompts)
\* the positions from lo to hi whose message has one of the formats
Shown(fmts, lo, hi) == {i \in lo..hi : prompts[i].prompt.msg.fmt \in fmts}
\* the batch of the type menu at position s has returned
Completed(s) ==
  \/ \E k \in (s + 1)..Len(prompts) : IsMenu(k)
  \/ pc = "SelectType" /\ ~Panicked
\* the count N asked after the type menu at position s
CountOf(s) == prompts[s + 1].reply.k

NumberedInOrder(fmts, s) ==
  LET all == Shown(fmts, s + 1, BatchEnd(s))
  IN /\ \A i \in all :
          prompts[i].prompt.msg.num = 1 + Cardinality({k \in all : k < i})
     /\ Completed(s) => Cardinality(all) = CountOf(s)

C12_NumberingRestarts ==
  \A s \in Menus :
    (prompts[s].reply.ok /\ prompts[s].reply.s # "SaveAndQuit") =>
      /\ NumberedInOrder(QuestionFmts, s)
      /\ NumberedInOrder(AnswerFmts, s)

\* after a completed batch of two questions, the first question prompt of
\* the next batch is showing number 1
C12_Witness ==
  /\ Len(out) = 1
  /\ Len(out[1].data) = 2
  /\ Cardinality(Menus) = 2
  /\ Len(prompts) = LastMenu + 2
  /\ prompts[Len(prompts)].prompt.msg = Numbered(0)
  /\ prompts[Len(prompts)].reply.ok


(***************************************************************************)
(* C13  CLI gate.  The authoring-and-persist flow runs if and only if the  *)
(* string "--input" occurs in the argument list.  Without it the process   *)
(* only prints the usage line and exits: no prompt is shown, data.json is  *)
(* not touched and keeps its content (or stays absent).  With it no usage  *)
(* line is printed, the type menu is the first thing shown, and the        *)
(* process does not end before a prompt was shown.                         *)
(***************************************************************************)
HasInputFlag == \E i \in 1..Len(args) : args[i] = "--input"
UsageLine ==
  <<"Usage: {} --input", IF args = <<>> THEN "program" ELSE args[1]>>

C13_CliGate ==
  /\ ~HasInputFlag =>
       /\ pc \in {"main", "exit"}
       /\ prompts = <<>>
       /\ io = <<>>
       /\ res = ""
       /\ file = old
       /\ out = <<>>
       /\ stderr = <<>>
       /\ stdout = IF pc = "exit" THEN <<UsageLine>> ELSE <<>>
       /\ code = 0
  /\ HasInputFlag =>
       /\ stdout = <<>>
       /\ pc = "main" => prompts = <<>> /\ io = <<>>
       /\ pc = "exit" => prompts # <<>>
       /\ prompts # <<>> => IsMenu(1)

\* the usage line was printed for arguments that come close to the flag,
\* with a data.json present
C13_Witness ==
  /\ pc = "exit"
  /\ ~HasInputFlag
  /\ Len(args) = 3
  /\ old.exists
  /\ stdout # <<>>


(***************************************************************************)
(* C14  Mcq prompt order.  After the type menu is answered Mcq, the next   *)
(* two prompts are "How many questions?" (N) and "How many options?" (M),  *)
(* and the prompts after them come in rounds of M + 2: the text of         *)
(* question i, the M options (a), (b), ..., and the selection menu of      *)
(* question i, which offers the options just typed under the question just *)
(* typed.  A completed batch has shown exactly N such rounds.  With M = 0  *)
(* the selection menu cannot be shown: the batch ends at the text of       *)
(* question 1, by the panic.                                               *)
(***************************************************************************)
\* the prompt at position p is the one that round i (from 0) of the Mcq
\* batch after the menu at s shows at its place r (from 0)
McqRoundOk(s, p, i, r) ==
  LET M == prompts[s + 2].reply.k
      first == p - r
      shown == prompts[p].prompt
  IN IF r = 0 THEN shown = Prompt("Text", Numbered(i), <<>>, FALSE)
     ELSE IF r <= M THEN shown = Prompt("Text", Lettered(r - 1), <<>>, FALSE)
     ELSE shown = Prompt("Select", NumberedText(i, prompts[first].reply.s),
                         TypedAfter(first, M), FALSE)

McqOrderOk(s) ==
  LET N == prompts[s + 1].reply.k
      M == prompts[s + 2].reply.k
  IN /\ BatchEnd(s) > s =>
          prompts[s + 1].prompt =
            Prompt("CustomType", Plain("How many questions?"), <<>>, FALSE)
     /\ BatchEnd(s) > s + 1 =>
          prompts[s + 2].prompt =
            Prompt("CustomType", Plain("How many options?"), <<>>, FALSE)
     /\ BatchEnd(s) > s + 2 =>
          /\ BatchEnd(s) <= s + 2 + N * (M + 2)
          /\ \A p \in (s + 3)..BatchEnd(s) :
               McqRoundOk(s, p, (p - s - 3) \div (M + 2), (p - s - 3) % (M + 2))
          /\ M = 0 => (BatchEnd(s) = s + 3 /\ ~Completed(s))
     /\ Completed(s) => BatchEnd(s) = s + 2 + N * (M + 2)

C14_McqPromptOrder ==
  \A s \in Menus :
    (prompts[s].reply.ok /\ prompts[s].reply.s = "Mcq") => McqOrderOk(s)

\* the text of the second question of an Mcq batch with two options has
\* just been asked, after the selection menu of the first
C14_Witness ==
  /\ pc = "ro_text"
  /\ tp = "Mcq"
  /\ n = 2
  /\ m = 2
  /\ Len(entries) = 1
  /\ options = <<>>
  /\ prompts[Len(prompts) - 1].prompt.kind = "Select"


(***************************************************************************)
(* C15  Matching prompt order and shared pool.  After the type menu is     *)
(* answered Matching and the count N, the next N prompts ask the question  *)
(* texts 1..N, the N after them the options (a), (b), ..., and only then   *)
(* come the selection menus, one per question in question order; every     *)
(* menu offers the same pool: the N options in the order they were typed.  *)
(* A completed batch has shown exactly 3 N prompts after the count.        *)
(***************************************************************************)
\* the prompt at position s + 1 + x of the Matching batch after the menu at s
MatchingSlotOk(s, x) ==
  LET N == prompts[s + 1].reply.k
      shown == prompts[s + 1 + x].prompt
  IN IF x <= N THEN shown = Prompt("Text", Numbered(x - 1), <<>>, FALSE)
     ELSE IF x <= 2 * N
       THEN shown = Prompt("Text", Lettered(x - N - 1), <<>>, FALSE)
     ELSE shown = Prompt("Select",
                         NumberedText(x - 2 * N - 1,
                                      prompts[s + 1 + x - 2 * N].reply.s),
                         TypedAfter(s + 1 + N, N), TRUE)

MatchingOrderOk(s) ==
  LET N == prompts[s + 1].reply.k
  IN /\ BatchEnd(s) > s =>
          prompts[s + 1].prompt =
            Prompt("CustomType", Plain("How many questions?"), <<>>, FALSE)
     /\ BatchEnd(s) > s + 1 =>
          /\ BatchEnd(s) <= s + 1 + 3 * N
          /\ \A x \in 1..(BatchEnd(s) - s - 1) : MatchingSlotOk(s, x)
     /\ Completed(s) => BatchEnd(s) = s + 1 + 3 * N

C15_MatchingPromptOrder ==
  \A s \in Menus :
    (prompts[s].reply.ok /\ prompts[s].reply.s = "Matching") =>
      MatchingOrderOk(s)

\* the second selection menu of a Matching batch is about to be shown, the
\* first question having been answered with the second of two options
C15_Witness ==
  /\ pc = "m_select"
  /\ tp = "Matching"
  /\ Len(entries) = 1
  /\ Len(options) = 2
  /\ options[1] # options[2]
  /\ entries[1].answer = options[2]


(***************************************************************************)
(* C16  Entry count and order.  Every instance the engine holds has        *)
(* exactly the N entries its batch was asked for, and entry i carries the  *)
(* text typed at the prompt of question i together with the answer (and,   *)
(* for RecognizeRoot, the example) given for question i.  The entries of   *)
(* the batch being read are the first ones of that list, in order.         *)
(***************************************************************************)
\* the reply at position p
Said(p) == prompts[p].reply
\* entry i of a batch of the type, read after the type menu at position s
EntryAsTyped(type, e, s, i) ==
  LET N == prompts[s + 1].reply.k IN
  CASE type = "Matching" ->
         /\ e.question = Said(s + 1 + i).s
         /\ e.answer = Said(s + 1 + 2 * N + i).s
    [] type = "YesNo" ->
         /\ e.question = Said(s + 1 + i).s
         /\ e.answer = Said(s + 1 + N + i).b
    [] type = "Recall" ->
         /\ e.question = Said(s + 1 + i).s
         /\ e.answer = Said(s + 1 + N + i).s
    [] type = "Mcq" ->
         LET M == prompts[s + 2].reply.k
             at == s + 3 + (i - 1) * (M + 2)
         IN /\ e.question = Said(at).s
            /\ e.answer = Said(at + M + 1).s
    [] type = "RecognizeRoot" ->
         LET at == s + 2 + (i - 1) * 3
         IN /\ e.question = Said(at).s
            /\ e.example = Said(at + 1).s
            /\ e.answer = Said(at + 2).s

C16_EntryCountAndOrder ==
  ~Panicked =>
    /\ \A j \in 1..Len(out) :
         LET s == MenuAt(j)
         IN /\ out[j].type \in
                 {"Matching", "YesNo", "Recall", "Mcq", "RecognizeRoot"}
            /\ Len(out[j].data) = CountOf(s)
            /\ \A i \in 1..Len(out[j].data) :
                 EntryAsTyped(out[j].type, out[j].data[i], s, i)
    /\ (InBatch /\ Len(entries) > 0) =>
         LET s == LastMenu
         IN /\ Len(entries) <= CountOf(s)
            /\ \A i \in 1..Len(entries) : EntryAsTyped(tp, entries[i], s, i)

\* a RecognizeRoot instance of two entries with different questions, the
\* first with an example other than its answer
C16_Witness ==
  /\ Len(out) = 1
  /\ out[1].type = "RecognizeRoot"
  /\ Len(out[1].data) = 2
  /\ out[1].data[1].question # out[1].data[2].question
  /\ out[1].data[1].example # out[1].data[1].answer


(***************************************************************************)
(* C17  Append-only across runs.  Over any sequence of runs on the same    *)
(* data.json, no step of a run that does not end in a failed write takes   *)
(* anything away from the stored collection: when the file parses to a     *)
(* collection before the step, it parses after the step to a collection    *)
(* that has the former as a prefix.  Hence in every state of a run the     *)
(* file holds the collection the run started with, followed by what the    *)
(* run added; a file that does not parse is left as it is.                 *)
(***************************************************************************)
IsPrefix(xs, ys) ==
  /\ Len(xs) <= Len(ys)
  /\ \A i \in 1..Len(xs) : SameExercise(xs[i], ys[i])

C17_SinceRunStart ==
  /\ (old.exists /\ Holds(old).ok /\ res # "Err(write)") =>
       /\ file.exists
       /\ Holds(file).ok
       /\ IsPrefix(Holds(old).val, Holds(file).val)
  /\ (old.exists /\ ~Holds(old).ok) => file = old
  /\ (~old.exists /\ res # "Err(write)") => (file.exists => Holds(file).ok)

C17_EveryStep ==
  (file.exists /\ Holds(file).ok /\ res' # "Err(write)") =>
    /\ file'.exists
    /\ Holds(file').ok
    /\ IsPrefix(Holds(file).val, Holds(file').val)

C17_AppendOnlyAcrossRuns == [](C17_SinceRunStart) /\ [][C17_EveryStep]_vars

\* a run has appended an instance with an entry to a file that an earlier
\* run of the tool had appended a YesNo instance to
C17_Witness ==
  /\ StoreRan
  /\ res = "Ok"
  /\ Holds(old).ok
  /\ Len(Holds(old).val) >= 2
  /\ Holds(old).val[Len(Holds(old).val)].type = "YesNo"
  /\ Holds(old).val[1].type = "SameOrOpposite"
  /\ Len(out) = 1
  /\ out[1].data # <<>>


(***************************************************************************)
(* C18  Mcq options length.  "How many options?" is asked once in an Mcq   *)
(* batch, and with its reply M every entry of the batch, collected or in   *)
(* the instance the engine holds, has an options list of exactly M         *)
(* elements: the M strings typed for that question, in the order typed.    *)
(* The options being read for the current question never exceed M.         *)
(***************************************************************************)
OptionCountFmts == {"How many options?"}
\* the reply M to "How many options?" in the batch after the menu at s
OptionsAsked(s) == prompts[s + 2].reply.k
McqOptionsOk(e, s, i) ==
  /\ Len(e.options) = OptionsAsked(s)
  /\ e.options = TypedAfter(s + 3 + (i - 1) * (OptionsAsked(s) + 2), OptionsAsked(s))

C18_McqOptionsLength ==
  /\ \A s \in Menus :
       (prompts[s].reply.ok /\ prompts[s].reply.s = "Mcq") =>
         /\ Cardinality(Shown(OptionCountFmts, s + 1, BatchEnd(s))) <= 1
         /\ Completed(s) =>
              Shown(OptionCountFmts, s + 1, BatchEnd(s)) = {s + 2}
  /\ ~Panicked =>
       /\ \A j \in 1..Len(out) :
            out[j].type = "Mcq" =>
              \A i \in 1..Len(out[j].data) :
                McqOptionsOk(out[j].data[i], MenuAt(j), i)
       /\ (InBatch /\ tp = "Mcq" /\ pc \notin {"mcq_n", "mcq_m"}) =>
            /\ m = OptionsAsked(LastMenu)
            /\ Len(options) <= m
            /\ \A i \in 1..Len(entries) : McqOptionsOk(entries[i], LastMenu, i)

\* an Mcq instance of two entries, each with the one option asked for, and
\* an Mcq batch of one entry with two options typed in the order q, p
C18_Witness ==
  /\ Len(out) = 1
  /\ out[1].type = "Mcq"
  /\ \/ /\ Len(out[1].data) = 2
        /\ Len(out[1].data[1].options) = 1
        /\ out[1].data[1].options = out[1].data[2].options
     \/ /\ Len(out[1].data) = 1
        /\ out[1].data[1].options = <<"q", "p">>

=============================================================================
